---- MODULE Spec2Model ----
(***************************************************************************)
(* Model of the esp-smart-lock repository: the OTA firmware registry       *)
(* (src/ota_server/main.go) and the ESP8266 lock controller                *)
(* (src/sketch/sketch.ino).                                                *)
(*                                                                         *)
(* Registry handlers are broken into the steps at which they touch the     *)
(* shared state (versions.latest under its RWMutex, the firmware           *)
(* directory), so that requests of different slots interleave.  The        *)
(* device is one thread: its position is pc, and every blocking call       *)
(* (delay, connect, update) is a position of its own at which the          *)
(* environment may move.                                                   *)
(***************************************************************************)
EXTENDS Integers, Sequences, FiniteSets, TLC

(***************************************************************************)
(* Bounds of the model.                                                    *)
(***************************************************************************)
MaxLen == 1

(***************************************************************************)
(* Version strings and payloads the clients draw from.                     *)
(***************************************************************************)
InitialVersion == "1.1.0"
Versions == {"1.1.0", "1.2.0"}
Bytes == {1, 2}
Payloads == UNION {[1..n -> Bytes] : n \in 0..MaxLen}

(***************************************************************************)
(* strings.*  helpers of the Go code, computed on TLA+ strings.            *)
(***************************************************************************)
HasSuffix(s, suf) ==
  /\ Len(s) >= Len(suf)
  /\ SubSeq(s, Len(s) - Len(suf) + 1, Len(s)) = suf

HasPrefix(s, pre) ==
  /\ Len(s) >= Len(pre)
  /\ SubSeq(s, 1, Len(pre)) = pre

TrimSuffix(s, suf) ==
  IF HasSuffix(s, suf) THEN SubSeq(s, 1, Len(s) - Len(suf)) ELSE s

TrimPrefix(s, pre) ==
  IF HasPrefix(s, pre) THEN SubSeq(s, Len(pre) + 1, Len(s)) ELSE s

\* Position of the first sep at or after i, 0 when there is none.
RECURSIVE IndexFrom(_, _, _)
IndexFrom(s, sep, i) ==
  IF i > Len(s) THEN 0
  ELSE IF SubSeq(s, i, i) = sep THEN i
  ELSE IndexFrom(s, sep, i + 1)

\* strings.Split(s, sep) for a one-character sep.
RECURSIVE Split(_, _)
Split(s, sep) ==
  LET i == IndexFrom(s, sep, 1)
  IN  IF i = 0 THEN <<s>>
      ELSE <<SubSeq(s, 1, i - 1)>> \o Split(SubSeq(s, i + 1, Len(s)), sep)

\* filepath.Join(firmwareDir, "firmware_"+version+".bin"), as the name
\* inside the firmware directory.
FirmwarePath(version) == "firmware_" \o version \o ".bin"

\* listFirmware: version := TrimPrefix(TrimSuffix(name, ".bin"), "firmware_")
VersionOfName(name) == TrimPrefix(TrimSuffix(name, ".bin"), "firmware_")

(***************************************************************************)
(* getMD5Hash: a 16-bit stand-in for MD5 over the file's bytes, printed    *)
(* with %x (two hex digits per digest byte); "" when the file cannot be    *)
(* opened.                                                                 *)
(***************************************************************************)
RECURSIVE DigestFrom(_, _)
DigestFrom(h, bytes) ==
  IF bytes = <<>> THEN h
  ELSE DigestFrom((h * 33 + Head(bytes)) % 65536, Tail(bytes))

Digest(bytes) == DigestFrom(5381, bytes)

HexDigit(n) == SubSeq("0123456789abcdef", n + 1, n + 1)

HexByte(b) == HexDigit(b \div 16) \o HexDigit(b % 16)

HexDigest(d) == HexByte(d \div 256) \o HexByte(d % 256)

(***************************************************************************)
(* State.                                                                  *)
(*                                                                         *)
(*  Registry (main.go)                                                     *)
(*   latest   versions.latest                                              *)
(*   files    the firmware directory: file name -> bytes                   *)
(*   req      per connection slot, the request it is serving or has just   *)
(*            served: the arguments (arg), the handler's locals (loc) and  *)
(*            position (pc), the response once written (resp), and what    *)
(*            had happened when the request arrived (pre)                  *)
(*   last     the slot whose request completed most recently               *)
(*   hist     history of the completed requests:                           *)
(*     clean, seq   the versions uploaded so far, in order, while nothing  *)
(*                  but successful uploads of distinct versions and        *)
(*                  listings has completed since the start                 *)
(*     dangling     a delete of the current version succeeded and no       *)
(*                  upload has been accepted since                         *)
(*     restarted    the registry process has been started again and no     *)
(*                  upload has been accepted since                         *)
(***************************************************************************)
VARIABLES latest, files, req, last, hist

regVars == <<latest, files, req, last, hist>>

(***************************************************************************)
(*  Device (sketch.ino)                                                    *)
(*                                                                         *)
(*   step      where the single thread is: setup, a step of loop(), or a   *)
(*             blocking call it is waiting in                              *)
(*   ret       where checkForUpdate returns to                             *)
(*   led       the level of LED_PIN, the actuator output: LOW energizes    *)
(*   packetCount, packetBuffer, lastUpdateCheck    the globals             *)
(*   now       loop()'s local, the clock as read at the timer check        *)
(*   clock     millis(), 32 bits                                           *)
(*   wifi      WiFi.status()                                               *)
(*   runningVersion   the version string built into the firmware          *)
(*   attempt   the update attempt in progress or just ended: what started  *)
(*             it, the version running then, its connectivity check,       *)
(*             whether update() sent the request, its outcome              *)
(*   statusReply   the last answer to GET /                                 *)
(*   obs       what has been observed since the start: the datagrams       *)
(*             processed, those that matched the unlock token, the times   *)
(*             LED_PIN went LOW, and the datagram processed last with the  *)
(*             counter and LED level before it                             *)
(***************************************************************************)
VARIABLES step, ret, led, packetCount, packetBuffer, lastUpdateCheck, now,
          clock, wifi, runningVersion, attempt, statusReply, obs

devVars == <<step, ret, led, packetCount, packetBuffer, lastUpdateCheck, now,
             clock, wifi, runningVersion, attempt, statusReply, obs>>

vars == <<regVars, devVars>>

MaxReqs == 1

\* The connection of the device's HTTP client (WiFiClient client) and
\* those of the administrative clients.
DevSlot == "dev"
SlotNames == <<"adm1", "adm2", "adm3">>
AdminSlots == {SlotNames[i] : i \in 1..MaxReqs}
SeqSlot == SlotNames[1]
Slots == AdminSlots \cup {DevSlot}

NoResp == [status |-> -1]
EmptyDir == [n \in {} |-> <<>>]
NoPre == [alone |-> FALSE, after |-> [op |-> "none"], clean |-> FALSE,
          seq |-> <<>>, dangling |-> FALSE, latest |-> "",
          files |-> EmptyDir]
Idle == [op |-> "idle", pc |-> "idle", arg |-> <<>>, loc |-> <<>>,
         resp |-> NoResp, pre |-> NoPre]

\* The method a handler accepts, and one it rejects.
Methods(allowed) == {allowed, "PUT"}

\* What a client can send as x-esp8266-version and as User-Agent.
HeaderVals == Versions \cup {""}
ClientIds ==
  {[hdr |-> h, ua |-> "ESP8266-http-Update"] : h \in HeaderVals}
  \cup {[hdr |-> "", ua |-> "curl/1.2.0"]}

\* The multipart forms POSTed to /upload.  oversize says that the firmware
\* part is larger than the 10 << 20 bytes handed to ParseMultipartForm
\* (line 152), its bytes standing for a longer content; that number is
\* the share of the parts kept in memory, the rest goes to temporary
\* files, so the part is there for FormFile either way.
UploadForms ==
  {f \in [parseOk : {TRUE}, hasFile : {TRUE}, oversize : BOOLEAN,
          version : Versions \cup {""}, payload : Payloads] :
     f.oversize => f.payload # <<>>}
  \cup [parseOk : BOOLEAN, hasFile : {FALSE}, oversize : {FALSE},
        version : Versions, payload : {<<>>}]

FileExists(name) == name \in DOMAIN files

RemoveFile(dir, name) == [n \in DOMAIN dir \ {name} |-> dir[n]]

\* A write of one byte at offset off through an open handle (holes are
\* zero-filled).
RECURSIVE Zeros(_)
Zeros(n) == IF n <= 0 THEN <<>> ELSE <<0>> \o Zeros(n - 1)

WriteAt(content, off, b) ==
  IF off < Len(content)
    THEN [content EXCEPT ![off + 1] = b]
    ELSE content \o Zeros(off - Len(content)) \o <<b>>

\* getMD5Hash without its io.Copy: the digest of no bytes.
getMD5HashNoCopy(dir, name) ==
  IF name \in DOMAIN dir THEN HexDigest(Digest(<<>>)) ELSE ""

getMD5Hash(dir, name) ==
  IF name \in DOMAIN dir THEN HexDigest(Digest(dir[name])) ELSE ""

getClientVersion(hdr, ua) ==
  IF hdr # "" THEN hdr
  ELSE LET parts == Split(ua, "/")
       IN  IF Len(parts) > 1 THEN parts[2] ELSE ""

RegInit ==
  /\ latest = InitialVersion
  /\ files = EmptyDir
  /\ req = [r \in Slots |-> Idle]
  /\ last = "none"
  /\ hist = [clean |-> TRUE, seq |-> <<>>, dangling |-> FALSE,
             restarted |-> FALSE]

InFlight(r) == req[r].pc \notin {"idle", "done"}
At(r, op, pc) == req[r].op = op /\ req[r].pc = pc
IsDone(r, op) == req[r].op = op /\ req[r].pc = "done"
Quiet == \A q \in Slots : ~InFlight(q)

\* A response: status, body, the x-MD5 header, the firmware_list and the
\* version a text or JSON body carries.
Response(status, body, md5, entries, current) ==
  [status |-> status, body |-> body, md5 |-> md5, entries |-> entries,
   current |-> current]

ErrorResponse(status) == Response(status, <<>>, "", {}, "")

\* What had happened when a request arrives while nothing else is being
\* served: the request completed just before it, when that was a
\* successful upload or listing, the history so far and the registry's
\* state.
Before ==
  IF ~Quiet THEN NoPre
  ELSE [alone |-> TRUE,
        after |->
          IF last \in Slots /\ req[last].resp.status = 200
             /\ req[last].op \in {"upload", "list"}
            THEN [op |-> req[last].op, arg |-> req[last].arg,
                  resp |-> req[last].resp]
            ELSE [op |-> "none"],
        clean |-> hist.clean,
        seq |-> hist.seq,
        dangling |-> hist.dangling,
        latest |-> latest,
        files |-> files]

\* What a request that changes the registry finds when it arrives while
\* nothing else is being served: the registry's state.
BeforeChange ==
  IF ~Quiet THEN NoPre
  ELSE [NoPre EXCEPT !.alone = TRUE, !.latest = latest, !.files = files]

\* The snapshot kept with a request of kind op.
Snapshot(op) == IF op \in {"upload", "delete"} THEN BeforeChange ELSE Before

\* Slot r takes a request; requests being served no longer run alone.
Accept(r, op, pc, arg, loc) ==
  req' = [q \in Slots |->
            IF q = r
              THEN [op |-> op, pc |-> pc, arg |-> arg, loc |-> loc,
                    resp |-> NoResp,
                    pre |-> Snapshot(op)]
            ELSE IF InFlight(q) THEN [req[q] EXCEPT !.pre = NoPre]
            ELSE req[q]]

\* The handler of slot r returns: its response is written.
Complete(r, response) ==
  /\ req' = [req EXCEPT ![r].pc = "done", ![r].resp = response]
  /\ last' = r

\* A request answered before it reaches the handler's body; what a
\* rejected change found is kept.
Reject(r, op, arg, status) ==
  /\ req' = [q \in Slots |->
               IF q = r
                 THEN [op |-> op, pc |-> "done", arg |-> arg, loc |-> <<>>,
                       resp |-> ErrorResponse(status),
                       pre |-> IF op \in {"upload", "delete"}
                                 THEN BeforeChange ELSE NoPre]
               ELSE IF InFlight(q) THEN [req[q] EXCEPT !.pre = NoPre]
               ELSE req[q]]
  /\ last' = r

\* The history after a completed request that is neither a successful
\* upload nor a listing.
Other(h) == [h EXCEPT !.clean = FALSE, !.seq = <<>>]

(***************************************************************************)
(* uploadFirmware                                                          *)
(***************************************************************************)
\* Lines 146-171 without the check of lines 166-171: an empty version
\* passes.
UploadChecksNoVersion(method, form) ==
  IF method # "POST" THEN 405
  ELSE IF ~form.parseOk THEN 400
  ELSE IF ~form.hasFile THEN 400
  ELSE 200

\* Lines 146-171: the status the checks of uploadFirmware end in, 200 when
\* they all pass.
UploadChecks(method, form) ==
  IF method # "POST" THEN 405
  ELSE IF ~form.parseOk THEN 400
  ELSE IF ~form.hasFile THEN 400
  ELSE IF form.version = "" THEN 400
  ELSE 200

\* Lines 146-171: method, form, file and version checks; nothing shared
\* is touched before they pass.
UploadStart(r, method, form) ==
  /\ UNCHANGED devVars
  /\ ~InFlight(r)
  /\ LET status == UploadChecks(method, form)
         arg == [method |-> method, hasFile |-> form.hasFile,
                 oversize |-> form.oversize,
                 version |-> form.version, payload |-> form.payload]
     IN  IF status # 200
           THEN /\ Reject(r, "upload", arg, status)
                /\ hist' = Other(hist)
           ELSE /\ Accept(r, "upload", "setLatest", arg,
                          [off |-> 0, orphan |-> FALSE])
                /\ hist' = [hist EXCEPT !.dangling = FALSE,
                                         !.restarted = FALSE]
                /\ UNCHANGED last
  /\ UNCHANGED <<latest, files>>

\* uploadFirmware without lines 181-184: versions.latest is left alone.
UploadKeepLatest(r) ==
  /\ UNCHANGED devVars
  /\ At(r, "upload", "setLatest")
  /\ req' = [req EXCEPT ![r].pc = "create"]
  /\ UNCHANGED <<latest, files, last, hist>>

\* uploadFirmware keeping versions.latest once an upload has changed it.
UploadSetLatestOnce(r) ==
  /\ UNCHANGED devVars
  /\ At(r, "upload", "setLatest")
  /\ latest' = IF latest = InitialVersion THEN req[r].arg.version ELSE latest
  /\ req' = [req EXCEPT ![r].pc = "create"]
  /\ UNCHANGED <<files, last, hist>>

\* Lines 181-184: versions.latest = version under the write lock.
UploadSetLatest(r) ==
  /\ UNCHANGED devVars
  /\ At(r, "upload", "setLatest")
  /\ latest' = req[r].arg.version
  /\ req' = [req EXCEPT ![r].pc = "create"]
  /\ UNCHANGED <<files, last, hist>>

\* Lines 186-197: os.Create truncates or creates the file, or fails.
UploadCreate(r, ok) ==
  /\ UNCHANGED devVars
  /\ At(r, "upload", "create")
  /\ IF ok
       THEN /\ files' = (FirmwarePath(req[r].arg.version) :> <<>>) @@ files
            /\ req' = [req EXCEPT ![r].pc = "copy"]
            /\ UNCHANGED <<last, hist>>
       ELSE /\ Complete(r, ErrorResponse(500))
            /\ hist' = Other(hist)
            /\ UNCHANGED files
  /\ UNCHANGED latest

\* Lines 199-208: io.Copy writes the payload through the handle, one
\* byte per step here, and may fail at any point.
UploadCopy(r, ok) ==
  /\ UNCHANGED devVars
  /\ At(r, "upload", "copy")
  /\ req[r].loc.off < Len(req[r].arg.payload)
  /\ LET name == FirmwarePath(req[r].arg.version)
         off == req[r].loc.off
     IN  IF ok
           THEN /\ files' = IF req[r].loc.orphan \/ ~FileExists(name)
                              THEN files
                              ELSE [files EXCEPT ![name] =
                                      WriteAt(@, off,
                                              req[r].arg.payload[off + 1])]
                /\ req' = [req EXCEPT ![r].loc.off = off + 1]
                /\ UNCHANGED <<last, hist>>
           ELSE /\ Complete(r, ErrorResponse(500))
                /\ hist' = Other(hist)
                /\ UNCHANGED files
  /\ UNCHANGED latest

\* Lines 210-221: the copy is complete; the success text, which names the
\* version, is written.
UploadFinish(r) ==
  /\ UNCHANGED devVars
  /\ At(r, "upload", "copy")
  /\ req[r].loc.off = Len(req[r].arg.payload)
  /\ Complete(r, Response(200, <<>>, "", {}, req[r].arg.version))
  /\ LET new == hist.clean /\ \A i \in 1..Len(hist.seq) :
                                 hist.seq[i] # req[r].arg.version
     IN  hist' = [hist EXCEPT
                    !.clean = new,
                    !.seq = IF new THEN Append(hist.seq, req[r].arg.version)
                            ELSE <<>>]
  /\ UNCHANGED <<latest, files>>

(***************************************************************************)
(* getFirmware                                                             *)
(***************************************************************************)
\* Lines 226-233: method check, the version query parameter and the
\* client's reported version.
FetchStart(r, method, requestedVersion, client) ==
  /\ ~InFlight(r)
  /\ LET arg == [requestedVersion |-> requestedVersion,
                 clientVersion |-> getClientVersion(client.hdr, client.ua)]
     IN  IF method # "GET"
           THEN /\ Reject(r, "fetch", arg, 405)
                /\ hist' = Other(hist)
           ELSE /\ Accept(r, "fetch", "readLatest", arg,
                          [targetVersion |-> "", md5 |-> ""])
                /\ UNCHANGED <<last, hist>>
  /\ UNCHANGED <<latest, files>>

\* Lines 235-241: targetVersion is versions.latest read under the read
\* lock, replaced by the requested version when one is given.
FetchReadLatest(r) ==
  /\ UNCHANGED devVars
  /\ At(r, "fetch", "readLatest")
  /\ req' = [req EXCEPT ![r].loc.targetVersion =
               IF req[r].arg.requestedVersion # ""
                 THEN req[r].arg.requestedVersion
                 ELSE latest,
             ![r].pc = "stat"]
  /\ UNCHANGED <<latest, files, last, hist>>

\* Line 264 without its requestedVersion == "" conjunct.
NotModifiedAnyRequest(requestedVersion, clientVersion, targetVersion) ==
  clientVersion = targetVersion

\* Line 264 comparing the client's version with the requested one.
NotModifiedRequested(requestedVersion, clientVersion, targetVersion) ==
  requestedVersion = "" /\ clientVersion = requestedVersion

\* Line 264: the client already runs the version an unfiltered request
\* resolves to.
NotModified(requestedVersion, clientVersion, targetVersion) ==
  requestedVersion = "" /\ clientVersion = targetVersion

\* getFirmware with the version comparison of line 264 ahead of the
\* os.Stat of line 252.
FetchCompareFirst(r) ==
  /\ UNCHANGED devVars
  /\ At(r, "fetch", "stat")
  /\ IF NotModified(req[r].arg.requestedVersion, req[r].arg.clientVersion,
                    req[r].loc.targetVersion)
       THEN /\ Complete(r, ErrorResponse(304))
            /\ hist' = Other(hist)
       ELSE IF ~FileExists(FirmwarePath(req[r].loc.targetVersion))
         THEN /\ Complete(r, ErrorResponse(404))
              /\ hist' = Other(hist)
         ELSE /\ req' = [req EXCEPT ![r].pc = "md5"]
              /\ UNCHANGED <<last, hist>>
  /\ UNCHANGED <<latest, files>>

\* Lines 251-272: 404 when the file is missing; otherwise 304 for an
\* unfiltered request of a client that reports the target version.
FetchStat(r) ==
  /\ UNCHANGED devVars
  /\ At(r, "fetch", "stat")
  /\ IF ~FileExists(FirmwarePath(req[r].loc.targetVersion))
       THEN /\ Complete(r, ErrorResponse(404))
            /\ hist' = Other(hist)
       ELSE IF NotModified(req[r].arg.requestedVersion,
                           req[r].arg.clientVersion,
                           req[r].loc.targetVersion)
         THEN /\ Complete(r, ErrorResponse(304))
              /\ hist' = Other(hist)
         ELSE /\ req' = [req EXCEPT ![r].pc = "md5"]
              /\ UNCHANGED <<last, hist>>
  /\ UNCHANGED <<latest, files>>

\* Lines 274-278: the x-MD5 header is computed from the file as it is now.
FetchMD5(r) ==
  /\ UNCHANGED devVars
  /\ At(r, "fetch", "md5")
  /\ req' = [req EXCEPT ![r].loc.md5 =
               getMD5Hash(files, FirmwarePath(req[r].loc.targetVersion)),
             ![r].pc = "serve"]
  /\ UNCHANGED <<latest, files, last, hist>>

\* Line 288: http.ServeFile sends the file as it is now (a request
\* without Range or conditional headers), or 404 when it is gone.
FetchServe(r) ==
  /\ UNCHANGED devVars
  /\ At(r, "fetch", "serve")
  /\ LET name == FirmwarePath(req[r].loc.targetVersion)
     IN  IF FileExists(name)
           THEN Complete(r, Response(200, files[name], req[r].loc.md5, {}, ""))
           ELSE Complete(r, Response(404, <<>>, req[r].loc.md5, {}, ""))
  /\ hist' = Other(hist)
  /\ UNCHANGED <<latest, files>>

(***************************************************************************)
(* getVersion                                                              *)
(***************************************************************************)
\* Lines 292-307.
GetVersion(r, method) ==
  /\ UNCHANGED devVars
  /\ ~InFlight(r)
  /\ IF method # "GET"
       THEN Reject(r, "version", <<>>, 405)
       ELSE /\ Accept(r, "version", "read", <<>>, <<>>)
            /\ UNCHANGED last
  /\ hist' = Other(hist)
  /\ UNCHANGED <<latest, files>>

GetVersionRead(r) ==
  /\ UNCHANGED devVars
  /\ At(r, "version", "read")
  /\ Complete(r, Response(200, <<>>, "", {}, latest))
  /\ UNCHANGED <<latest, files, hist>>

(***************************************************************************)
(* listFirmware                                                            *)
(***************************************************************************)
\* Lines 311-322: method check and os.ReadDir.
ListStart(r, method) ==
  /\ UNCHANGED devVars
  /\ ~InFlight(r)
  /\ IF method # "GET"
       THEN /\ Reject(r, "list", <<>>, 405)
            /\ hist' = Other(hist)
       ELSE /\ Accept(r, "list", "readLatest", <<>>,
                      [names |-> DOMAIN files, currentLatest |-> ""])
            /\ UNCHANGED <<last, hist>>
  /\ UNCHANGED <<latest, files>>

\* Lines 324-326.
ListReadLatest(r) ==
  /\ UNCHANGED devVars
  /\ At(r, "list", "readLatest")
  /\ req' = [req EXCEPT ![r].loc.currentLatest = latest, ![r].pc = "build"]
  /\ UNCHANGED <<latest, files, last, hist>>

\* One element of firmware_list (lines 352-367).
FirmwareInfo(dir, name, currentLatest) ==
  [version |-> VersionOfName(name),
   filename |-> name,
   size |-> Len(dir[name]),
   md5 |-> getMD5Hash(dir, name),
   isLatest |-> VersionOfName(name) = currentLatest,
   downloadURL |-> "/firmware?version=" \o VersionOfName(name)]

\* Lines 347-383: one entry per .bin file of the directory listing.  An
\* entry whose file has gone since the listing has no FileInfo: the nil
\* dereference aborts the handler (status 0, nothing written).
ListBuild(r) ==
  /\ UNCHANGED devVars
  /\ At(r, "list", "build")
  /\ LET bins == {n \in req[r].loc.names : HasSuffix(n, ".bin")}
     IN  IF \E n \in bins : ~FileExists(n)
           THEN /\ Complete(r, ErrorResponse(0))
                /\ hist' = Other(hist)
           ELSE /\ Complete(r, Response(200, <<>>, "",
                      {FirmwareInfo(files, n, req[r].loc.currentLatest) :
                         n \in bins},
                      req[r].loc.currentLatest))
                /\ UNCHANGED hist
  /\ UNCHANGED <<latest, files>>

(***************************************************************************)
(* deleteFirmware                                                          *)
(***************************************************************************)
\* Lines 388-401.
DeleteStart(r, method, version) ==
  /\ UNCHANGED devVars
  /\ ~InFlight(r)
  /\ LET status == IF method # "DELETE" THEN 405
                   ELSE IF version = "" THEN 400
                   ELSE 200
         arg == [version |-> version]
     IN  IF status # 200
           THEN /\ Reject(r, "delete", arg, status)
                /\ hist' = Other(hist)
           ELSE /\ Accept(r, "delete", "stat", arg, <<>>)
                /\ UNCHANGED <<last, hist>>
  /\ UNCHANGED <<latest, files>>

\* Lines 403-412.
DeleteStat(r) ==
  /\ UNCHANGED devVars
  /\ At(r, "delete", "stat")
  /\ IF FileExists(FirmwarePath(req[r].arg.version))
       THEN /\ req' = [req EXCEPT ![r].pc = "remove"]
            /\ UNCHANGED <<last, hist>>
       ELSE /\ Complete(r, ErrorResponse(404))
            /\ hist' = Other(hist)
  /\ UNCHANGED <<latest, files>>

\* deleteFirmware resetting versions.latest when the version it removes
\* is the current one.
DeleteRemoveClearsCurrent(r, ok) ==
  /\ UNCHANGED devVars
  /\ At(r, "delete", "remove")
  /\ LET name == FirmwarePath(req[r].arg.version)
     IN  IF ok /\ FileExists(name)
           THEN /\ files' = RemoveFile(files, name)
                /\ latest' = IF req[r].arg.version = latest THEN "" ELSE latest
                /\ Complete(r, Response(200, <<>>, "", {}, req[r].arg.version))
                /\ hist' = Other(hist)
           ELSE /\ Complete(r, ErrorResponse(500))
                /\ hist' = Other(hist)
                /\ UNCHANGED <<files, latest>>

\* Lines 414-430: os.Remove unlinks the name, or fails.  A handle that an
\* upload holds on the removed file keeps writing to the unlinked file.
DeleteRemove(r, ok) ==
  /\ UNCHANGED devVars
  /\ At(r, "delete", "remove")
  /\ LET name == FirmwarePath(req[r].arg.version)
     IN  IF ok /\ FileExists(name)
           THEN /\ files' = RemoveFile(files, name)
                /\ req' = [q \in Slots |->
                             IF q = r
                               THEN [req[r] EXCEPT
                                       !.pc = "done",
                                       !.resp = Response(200, <<>>, "", {},
                                                  req[r].arg.version)]
                             ELSE IF req[q].op = "upload"
                                     /\ req[q].pc = "copy"
                                     /\ req[q].arg.version = req[r].arg.version
                               THEN [req[q] EXCEPT !.loc.orphan = TRUE]
                               ELSE req[q]]
                /\ last' = r
                /\ hist' = [Other(hist) EXCEPT
                              !.dangling = (hist.dangling
                                            \/ req[r].arg.version = latest)]
           ELSE /\ Complete(r, ErrorResponse(500))
                /\ hist' = Other(hist)
                /\ UNCHANGED files
  /\ UNCHANGED latest

(***************************************************************************)
(* The device (sketch.ino).                                                *)
(***************************************************************************)
MaxPackets == 2
MaxTicks == 1

updateInterval == 60000
BufSize == 255
MaxPolls == 20

\* unsigned long, 32 bits, kept as two 16-bit halves.
Half == 65536
U32(n) == [hi |-> (n \div Half) % Half, lo |-> n % Half]
Plus(a, n) ==
  [hi |-> (a.hi + (a.lo + n) \div Half) % Half, lo |-> (a.lo + n) % Half]
Minus(a, b) ==
  [hi |-> (a.hi - b.hi - (IF a.lo < b.lo THEN 1 ELSE 0)) % Half,
   lo |-> (a.lo - b.lo) % Half]
Less(a, b) == a.hi < b.hi \/ (a.hi = b.hi /\ a.lo < b.lo)

\* The tokens, as the bytes of their ASCII text.
UNLOCK == <<117, 110, 108, 111, 99, 107>>
F_PRESSED == <<102, 95, 112, 114, 101, 115, 115, 101, 100>>
LOCK == <<108, 111, 99, 107>>
OPEN == <<111, 112, 101, 110>>

\* The datagrams sent to port 2333: the tokens, an unknown word, a token
\* with a newline after it, tokens with a zero byte and more after it, the
\* empty datagram, and datagrams that fill the buffer.
Datagrams ==
  {UNLOCK, LOCK, F_PRESSED, OPEN, <<>>,
   UNLOCK \o <<10>>,
   UNLOCK \o <<0>> \o LOCK,
   [i \in 1..BufSize |-> 65]}

\* The datagrams of the documented clients.
Commands == {UNLOCK, LOCK, <<>>}

\* polls is the local attempts of reconnectWiFi(); reply is the status of
\* the response sent to the POST /update that started the attempt, 0 when
\* none has been sent.
NoAttempt == [kind |-> "none", version |-> "", conn |-> "untested",
              fetch |-> FALSE, integrity |-> "none", outcome |-> "none",
              start |-> U32(0), retry |-> FALSE, failedStart |-> U32(0),
              polls |-> 0, reply |-> 0,
              checked |-> FALSE, checkedAt |-> U32(0)]

\* The record of an attempt once loop() has moved on: of a failed
\* timer-driven attempt the time it started is kept, until the next
\* attempt; of the last timer-driven attempt that went on to
\* checkForUpdate() the time it started is kept (checked, checkedAt).
Forget(a) ==
  LET called == a.kind = "timer" /\ a.conn # "linkDown"
      kept == [NoAttempt EXCEPT
                 !.checked = a.checked \/ called,
                 !.checkedAt = IF called THEN a.start ELSE a.checkedAt]
  IN  IF a.kind = "timer" /\ a.outcome = "Failed"
        THEN [kept EXCEPT !.retry = TRUE, !.failedStart = a.start]
      ELSE IF a.kind = "none" THEN a
      ELSE kept

\* An update attempt starts, at the time the clock shows.  A timer-driven
\* attempt that follows a failed timer-driven one is a retry of it and
\* keeps the time that one started.
NewAttempt(kind) ==
  LET before == Forget(attempt)
  IN  [kind |-> kind, version |-> runningVersion,
       conn |-> "untested", fetch |-> FALSE,
       integrity |-> "none", outcome |-> "running",
       start |-> clock, retry |-> kind = "timer" /\ before.retry,
       failedStart |-> IF kind = "timer" THEN before.failedStart ELSE U32(0),
       polls |-> 0, reply |-> 0,
       checked |-> before.checked, checkedAt |-> before.checkedAt]
NoStatus == [sent |-> FALSE]
NoCmd == [payload |-> <<>>, countBefore |-> 0, unlocksBefore |-> 0,
          energizedBefore |-> 0, ledBefore |-> "UNSET", zeroAt |-> 0]

\* inbox is the datagram waiting in the UDP socket (none: the empty one)
\* and during says where loop() was when it came in.
NoObs == [received |-> 0, unlocks |-> 0, energized |-> 0, cmd |-> NoCmd,
          inbox |-> <<>>, during |-> "none"]

\* The globals and the pin as a reset leaves them.
Boot(version) ==
  /\ step = "setup"
  /\ ret = "none"
  /\ led = "UNSET"
  /\ packetCount = 0
  /\ packetBuffer = [i \in 1..BufSize |-> 0]
  /\ lastUpdateCheck = U32(0)
  /\ now = U32(0)
  /\ clock = U32(0)
  /\ wifi = "disconnected"
  /\ runningVersion = version
  /\ attempt = NoAttempt
  /\ statusReply = NoStatus
  /\ obs = NoObs

lockState == IF led = "LOW" THEN "Unlocked" ELSE "Locked"

(***************************************************************************)
(* The environment of the device: time and the WiFi link.                  *)
(***************************************************************************)
\* millis() advances; it is read at the top of loop() (GET /) and at the
\* timer check.
Tick ==
  /\ step \in {"loop", "timer"}
  /\ Less(clock, U32(MaxTicks * updateInterval))
  /\ clock' = Plus(clock, updateInterval)
  /\ UNCHANGED <<regVars, step, ret, led, packetCount, packetBuffer,
                 lastUpdateCheck, now, wifi, runningVersion, attempt, statusReply,
                 obs>>

WifiChange ==
  /\ wifi' = IF wifi = "connected" THEN "disconnected" ELSE "connected"
  /\ UNCHANGED <<regVars, step, ret, led, packetCount, packetBuffer,
                 lastUpdateCheck, now, clock, runningVersion, attempt, statusReply,
                 obs>>

(***************************************************************************)
(* setup()                                                                 *)
(***************************************************************************)
\* setup() driving the pin LOW.
SetupPinLow ==
  /\ step = "setup"
  /\ led' = "LOW"
  /\ step' = "connect"
  /\ UNCHANGED <<regVars, ret, packetCount, packetBuffer, lastUpdateCheck,
                 now, clock, wifi, runningVersion, attempt, statusReply, obs>>

\* Lines 162-164: the pin is an output and HIGH (off).
SetupPin ==
  /\ step = "setup"
  /\ led' = "HIGH"
  /\ step' = "connect"
  /\ UNCHANGED <<regVars, ret, packetCount, packetBuffer, lastUpdateCheck,
                 now, clock, wifi, runningVersion, attempt, statusReply, obs>>

\* Lines 171-233: setup() leaves its wait loop once WiFi is connected,
\* starts UDP and the web server and returns.
SetupConnected ==
  /\ step = "connect"
  /\ wifi = "connected"
  /\ step' = "loop"
  /\ UNCHANGED <<regVars, ret, led, packetCount, packetBuffer,
                 lastUpdateCheck, now, clock, wifi, runningVersion, attempt,
                 statusReply, obs>>

(***************************************************************************)
(* loop(): server.handleClient() and the two HTTP handlers                 *)
(***************************************************************************)
Requests == {"none", "status", "update"}

\* The POST /update handler going to its delay and checkForUpdate()
\* without server.send().
HandleClientSilent(h) ==
  /\ step = "loop"
  /\ h # "none" => wifi = "connected"
  /\ step' = CASE h = "none" -> "udp"
               [] h = "status" -> "statusConn"
               [] h = "update" -> "manualDelay"
  /\ attempt' = IF h = "update"
                  THEN NewAttempt("manual")
                  ELSE Forget(attempt)
  /\ statusReply' = NoStatus
  /\ UNCHANGED <<regVars, ret, led, packetCount, packetBuffer,
                 lastUpdateCheck, now, clock, wifi, runningVersion, obs>>

\* Line 238 with the handlers of lines 186-216.  No request pending (or one
\* for an unknown path, answered 404): on to the UDP socket.  GET /: the
\* handler starts its connectivity test.  POST /update: the answer, 200,
\* is sent (line 212) and the handler waits its 500 ms.
HandleClient(h) ==
  /\ step = "loop"
  /\ h # "none" => wifi = "connected"
  /\ step' = CASE h = "none" -> "udp"
               [] h = "status" -> "statusConn"
               [] h = "update" -> "manualDelay"
  /\ attempt' = IF h = "update"
                  THEN [NewAttempt("manual") EXCEPT !.reply = 200]
                  ELSE Forget(attempt)
  /\ statusReply' = NoStatus
  /\ UNCHANGED <<regVars, ret, led, packetCount, packetBuffer,
                 lastUpdateCheck, now, clock, wifi, runningVersion, obs>>

\* Lines 190-206: the connectivity test returns and the status document is
\* sent.
StatusReply(ok) ==
  /\ step = "statusConn"
  /\ ok => wifi = "connected"
  /\ statusReply' = [sent |-> TRUE, uptime |-> clock,
                     packets_received |-> packetCount,
                     firmware_version |-> "1.0.0",
                     ota_server_online |-> ok]
  /\ step' = "udp"
  /\ UNCHANGED <<regVars, ret, led, packetCount, packetBuffer,
                 lastUpdateCheck, now, clock, wifi, runningVersion, attempt,
                 obs>>

\* Lines 214-215: the delay is over, checkForUpdate() is called from the
\* handler.
ManualCheck ==
  /\ step = "manualDelay"
  /\ step' = "conn"
  /\ ret' = "udp"
  /\ UNCHANGED <<regVars, led, packetCount, packetBuffer, lastUpdateCheck,
                 now, clock, wifi, runningVersion, attempt, statusReply, obs>>

(***************************************************************************)
(* loop(): the UDP socket                                                  *)
(***************************************************************************)
Min(a, b) == IF a < b THEN a ELSE b

\* strcmp(buffer, token) == 0: the bytes up to the first zero byte are the
\* token's.
RECURSIVE SameFrom(_, _, _)
SameFrom(buffer, token, i) ==
  LET a == buffer[i]
      b == IF i <= Len(token) THEN token[i] ELSE 0
  IN  IF a # b THEN FALSE
      ELSE IF a = 0 THEN TRUE
      ELSE SameFrom(buffer, token, i + 1)

\* strncmp over the token's length: the buffer only has to start with it.
strncmp0(buffer, token) ==
  \A i \in 1..Len(token) : buffer[i] = token[i]

strcmp0(buffer, token) == SameFrom(buffer, token, 1)

\* What the write of packetBuffer[255], one past the array, may hit.
Spills == {"padding", "packetCount", "lastUpdateCheck"}

LowByteCleared(n) == n - (n % 256)
LowByteClearedU32(a) == [a EXCEPT !.lo = LowByteCleared(a.lo)]

\* Lines 241-267.  The empty datagram stands for parsePacket() returning 0,
\* which is also its answer when nothing has arrived.  Otherwise the
\* counter goes up, at most 255 bytes are read, a zero byte is written
\* after them, and the buffer is compared with the two tokens: on a match
\* the pin goes LOW and the 500 ms delay starts.
Receive(d, spill) ==
  /\ step = "udp"
  /\ IF Len(d) = 0
       THEN /\ spill = "padding"
            /\ step' = "timer"
            /\ UNCHANGED <<led, packetCount, packetBuffer, lastUpdateCheck,
                           obs>>
       ELSE LET len == Min(Len(d), BufSize)
                count == packetCount + 1
                buffer == [i \in 1..BufSize |->
                             IF i <= len THEN d[i]
                             ELSE IF i = len + 1 THEN 0
                             ELSE packetBuffer[i]]
                unlock == strcmp0(buffer, UNLOCK)
                pulse == unlock \/ strcmp0(buffer, F_PRESSED)
            IN  /\ obs.received < MaxPackets
                /\ len < BufSize => spill = "padding"
                /\ packetBuffer' = buffer
                /\ packetCount' = IF spill = "packetCount"
                                    THEN LowByteCleared(count)
                                    ELSE count
                /\ lastUpdateCheck' = IF spill = "lastUpdateCheck"
                                        THEN LowByteClearedU32(lastUpdateCheck)
                                        ELSE lastUpdateCheck
                /\ led' = IF pulse THEN "LOW" ELSE led
                /\ step' = IF pulse THEN "pulse" ELSE "timer"
                /\ obs' = [received |-> obs.received + 1,
                           unlocks |-> obs.unlocks + (IF unlock THEN 1 ELSE 0),
                           energized |->
                             obs.energized + (IF pulse THEN 1 ELSE 0),
                           cmd |-> [payload |-> d,
                                    countBefore |-> packetCount,
                                    unlocksBefore |-> obs.unlocks,
                                    energizedBefore |-> obs.energized,
                                    ledBefore |-> led,
                                    zeroAt |-> len],
                           inbox |-> <<>>, during |-> "none"]
  /\ UNCHANGED <<regVars, ret, now, clock, wifi, runningVersion, attempt,
                 statusReply>>

\* A datagram reaches the socket opened by udp.begin (line 181) and waits
\* there for the next udp.parsePacket().
Arrive(d) ==
  /\ step \notin {"setup", "connect", "restart"}
  /\ d # <<>>
  /\ obs.inbox = <<>>
  /\ obs.received < MaxPackets
  /\ obs' = [obs EXCEPT !.inbox = d, !.during = step]
  /\ UNCHANGED <<regVars, step, ret, led, packetCount, packetBuffer,
                 lastUpdateCheck, now, clock, wifi, runningVersion, attempt,
                 statusReply>>

\* The delay ends and the pin is left LOW.
EndPulseStaysLow ==
  /\ step = "pulse"
  /\ step' = "timer"
  /\ UNCHANGED <<regVars, ret, led, packetCount, packetBuffer,
                 lastUpdateCheck, now, clock, wifi, runningVersion, attempt,
                 statusReply, obs>>

\* Lines 257-258 and 262-263: the 500 ms are over, the pin goes HIGH.
EndPulse ==
  /\ step = "pulse"
  /\ led' = "HIGH"
  /\ step' = "timer"
  /\ UNCHANGED <<regVars, ret, packetCount, packetBuffer, lastUpdateCheck,
                 now, clock, wifi, runningVersion, attempt, statusReply, obs>>

(***************************************************************************)
(* loop(): the update timer                                                *)
(***************************************************************************)
\* Line 273, on unsigned long.
TimerDue(t, lastCheck) ==
  ~Less(Minus(t, lastCheck), U32(updateInterval)) \/ Less(t, lastCheck)

\* Lines 271-273: the clock is read and compared.
TimerCheck ==
  /\ step = "timer"
  /\ now' = clock
  /\ IF TimerDue(clock, lastUpdateCheck)
       THEN /\ step' = "reconnect"
            /\ attempt' = NewAttempt("timer")
       ELSE /\ step' = "loop"
            /\ UNCHANGED attempt
  /\ UNCHANGED <<regVars, ret, led, packetCount, packetBuffer,
                 lastUpdateCheck, clock, wifi, runningVersion, statusReply,
                 obs>>

\* reconnectWiFi polling without its attempts < 20 bound.
ReconnectPollForever ==
  /\ step = "reconnect"
  /\ wifi = "disconnected"
  /\ attempt' = [attempt EXCEPT !.polls = Min(@ + 1, MaxPolls - 1)]
  /\ UNCHANGED <<regVars, step, ret, led, packetCount, packetBuffer,
                 lastUpdateCheck, now, clock, wifi, runningVersion,
                 statusReply, obs>>

\* Lines 55-59: one pass of the while loop of reconnectWiFi; the link is
\* still down, 500 ms pass and attempts goes up.
ReconnectPoll ==
  /\ step = "reconnect"
  /\ wifi = "disconnected"
  /\ attempt.polls < MaxPolls
  /\ attempt' = [attempt EXCEPT !.polls = @ + 1]
  /\ UNCHANGED <<regVars, step, ret, led, packetCount, packetBuffer,
                 lastUpdateCheck, now, clock, wifi, runningVersion,
                 statusReply, obs>>

\* Lines 274-285 with reconnectWiFi (50-71): the link is up, or was down
\* and the while loop has ended, with the link up or after 20 polls; with
\* WiFi connected the random delay starts, otherwise the check is skipped
\* and lastUpdateCheck stays.
Reconnect ==
  /\ step = "reconnect"
  /\ wifi = "connected" \/ attempt.polls = MaxPolls
  /\ UNCHANGED wifi
  /\ IF wifi = "connected"
       THEN /\ step' = "jitter"
            /\ attempt' = [attempt EXCEPT !.polls = 0]
       ELSE /\ step' = "loop"
            /\ attempt' = [attempt EXCEPT !.conn = "linkDown",
                                          !.outcome = "Failed",
                                          !.polls = 0]
  /\ UNCHANGED <<regVars, ret, led, packetCount, packetBuffer,
                 lastUpdateCheck, now, clock, runningVersion, statusReply,
                 obs>>

\* Lines 278-279: delay(random(0, 5000)) is over, checkForUpdate() is
\* called; line 280 follows its return.
Jitter ==
  /\ step = "jitter"
  /\ step' = "conn"
  /\ ret' = "stamp"
  /\ UNCHANGED <<regVars, led, packetCount, packetBuffer, lastUpdateCheck,
                 now, clock, wifi, runningVersion, attempt, statusReply, obs>>

(***************************************************************************)
(* checkForUpdate()                                                        *)
(***************************************************************************)
\* checkForUpdate returns: to the POST /update handler and so to the UDP
\* socket, or to line 280, lastUpdateCheck = now.
Return ==
  /\ step' = IF ret = "stamp" THEN "loop" ELSE "udp"
  /\ lastUpdateCheck' = IF ret = "stamp" THEN now ELSE lastUpdateCheck
  /\ ret' = "none"

\* checkForUpdate going on to update() whatever the connectivity test says.
ConnTestIgnored(ok) ==
  /\ step = "conn"
  /\ ok => wifi = "connected"
  /\ attempt' = [attempt EXCEPT !.conn = IF ok THEN "passed" ELSE "failed"]
  /\ step' = "update"
  /\ UNCHANGED <<regVars, ret, lastUpdateCheck, led, packetCount,
                 packetBuffer, now, clock, wifi, runningVersion, statusReply,
                 obs>>

\* Lines 94-98 with testServerConnectivity (73-87): the TCP connection to
\* port 443 of the registry's host succeeds (ok) or not.
ConnTest(ok) ==
  /\ step = "conn"
  /\ ok => wifi = "connected"
  /\ IF ok
       THEN /\ attempt' = [attempt EXCEPT !.conn = "passed"]
            /\ step' = "update"
            /\ UNCHANGED <<ret, lastUpdateCheck>>
       ELSE /\ attempt' = [attempt EXCEPT !.conn = "failed",
                                          !.outcome = "Failed"]
            /\ Return
  /\ UNCHANGED <<regVars, led, packetCount, packetBuffer, now, clock, wifi,
                 runningVersion, statusReply, obs>>

\* update() called without the version: no x-ESP8266-version header.
UpdateClientNoVersion(version) == [hdr |-> "", ua |-> "ESP8266-http-Update"]

\* The client of ESPhttpUpdate.update: GET on firmwareUrl with the version
\* passed in as header x-esp8266-version and after the User-Agent's slash.
UpdateClient(version) ==
  [hdr |-> version, ua |-> "ESP8266-http-Update/" \o version]

\* Line 109, first half: update() connects and sends its request (ok), or
\* fails to connect.
UpdateSend(ok) ==
  /\ step = "update"
  /\ ok => wifi = "connected"
  /\ IF ok
       THEN /\ FetchStart(DevSlot, "GET", "", UpdateClient(runningVersion))
            /\ attempt' = [attempt EXCEPT !.fetch = TRUE]
            /\ step' = "await"
            /\ UNCHANGED <<ret, lastUpdateCheck>>
       ELSE /\ attempt' = [attempt EXCEPT !.outcome = "Failed"]
            /\ Return
            /\ UNCHANGED regVars
  /\ UNCHANGED <<led, packetCount, packetBuffer, now, clock, wifi,
                 runningVersion, statusReply, obs>>

Deliveries == {"intact", "damaged", "lost"}

\* A payload with a byte changed on the way.
Damaged(body) ==
  IF body = <<>> THEN body
  ELSE <<CHOOSE b \in Bytes : b # Head(body)>> \o Tail(body)

\* The result of update() for a response: 304 is HTTP_UPDATE_NO_UPDATES;
\* 200 is HTTP_UPDATE_OK once the bytes received have the MD5 of the x-MD5
\* header and are flashed; everything else is HTTP_UPDATE_FAILED.
HttpUpdate(response, received) ==
  CASE response.status = 304 -> "UpToDate"
    [] response.status = 200 ->
         IF response.md5 = HexDigest(Digest(received)) THEN "Installed"
         ELSE "Failed"
    [] OTHER -> "Failed"

\* Whether the bytes of a payload that arrived have the checksum the
\* registry declared for it.
Integrity(response, delivery, received) ==
  IF delivery = "lost" \/ response.status # 200 THEN "none"
  ELSE IF response.md5 = HexDigest(Digest(received)) THEN "match"
  ELSE "mismatch"

\* checkForUpdate restarting after update() whatever it returned.
UpdateResultAlwaysRestarts(delivery) ==
  /\ step = "await"
  /\ IsDone(DevSlot, "fetch")
  /\ LET response == req[DevSlot].resp
         received == IF delivery = "damaged" THEN Damaged(response.body)
                     ELSE response.body
         outcome == IF delivery = "lost" THEN "Failed"
                    ELSE HttpUpdate(response, received)
     IN  attempt' = [attempt EXCEPT
                       !.outcome = outcome,
                       !.integrity = Integrity(response, delivery, received)]
  /\ step' = "restart"
  /\ req' = [req EXCEPT ![DevSlot] = Idle]
  /\ UNCHANGED <<latest, files, last, hist, ret, lastUpdateCheck, led,
                 packetCount, packetBuffer, now, clock, wifi, runningVersion,
                 statusReply, obs>>

\* checkForUpdate without the restart of lines 118-119: it returns after
\* HTTP_UPDATE_OK as after the other results.
UpdateResultReturns(delivery) ==
  /\ step = "await"
  /\ IsDone(DevSlot, "fetch")
  /\ LET response == req[DevSlot].resp
         received == IF delivery = "damaged" THEN Damaged(response.body)
                     ELSE response.body
         outcome == IF delivery = "lost" THEN "Failed"
                    ELSE HttpUpdate(response, received)
     IN  attempt' = [attempt EXCEPT
                       !.outcome = outcome,
                       !.integrity = Integrity(response, delivery, received)]
  /\ Return
  /\ req' = [req EXCEPT ![DevSlot] = Idle]
  /\ UNCHANGED <<latest, files, last, hist, led, packetCount, packetBuffer,
                 now, clock, wifi, runningVersion, statusReply, obs>>

\* Lines 109-146: update() has its response, or loses the connection, and
\* returns and the connection is closed; after HTTP_UPDATE_OK the device
\* waits a second and restarts.
UpdateResult(delivery) ==
  /\ step = "await"
  /\ IsDone(DevSlot, "fetch")
  /\ LET response == req[DevSlot].resp
         received == IF delivery = "damaged" THEN Damaged(response.body)
                     ELSE response.body
         outcome == IF delivery = "lost" THEN "Failed"
                    ELSE HttpUpdate(response, received)
     IN  /\ attempt' = [attempt EXCEPT
                          !.outcome = outcome,
                          !.integrity = Integrity(response, delivery, received)]
         /\ IF outcome = "Installed"
              THEN /\ step' = "restart"
                   /\ UNCHANGED <<ret, lastUpdateCheck>>
              ELSE Return
  /\ req' = [req EXCEPT ![DevSlot] = Idle]
  /\ UNCHANGED <<latest, files, last, hist, led, packetCount, packetBuffer,
                 now, clock, wifi, runningVersion, statusReply, obs>>

\* checkForUpdate restarting the device when update() times out.
UpdateTimeoutRestarts ==
  /\ step = "await"
  /\ InFlight(DevSlot)
  /\ req' = [req EXCEPT ![DevSlot] = Idle]
  /\ attempt' = [attempt EXCEPT !.outcome = "Failed"]
  /\ step' = "restart"
  /\ UNCHANGED <<latest, files, last, hist, ret, lastUpdateCheck, led,
                 packetCount, packetBuffer, now, clock, wifi, runningVersion,
                 statusReply, obs>>

\* The 10 s timeout of the client passes before the registry has answered:
\* the connection is closed and update() fails.
UpdateTimeout ==
  /\ step = "await"
  /\ InFlight(DevSlot)
  /\ req' = [req EXCEPT ![DevSlot] = Idle]
  /\ attempt' = [attempt EXCEPT !.outcome = "Failed"]
  /\ Return
  /\ UNCHANGED <<latest, files, last, hist, led, packetCount, packetBuffer,
                 now, clock, wifi, runningVersion, statusReply, obs>>

\* Line 119, ESP.restart(): the device starts again, now running the
\* image it flashed, whose built-in version string is the image's own.
Restart(version) ==
  /\ step = "restart"
  /\ step' = "setup"
  /\ ret' = "none"
  /\ led' = "UNSET"
  /\ packetCount' = 0
  /\ packetBuffer' = [i \in 1..BufSize |-> 0]
  /\ lastUpdateCheck' = U32(0)
  /\ now' = U32(0)
  /\ clock' = U32(0)
  /\ wifi' = "disconnected"
  /\ runningVersion' = version
  /\ attempt' = NoAttempt
  /\ statusReply' = NoStatus
  /\ obs' = NoObs
  /\ UNCHANGED regVars

(***************************************************************************)
(* The device with a registry that has served its administrators: no       *)
(* image stored yet, or the image of a newer version.                      *)
(***************************************************************************)
Image == <<1>>

RegStored(version) ==
  /\ latest = version
  /\ files = (FirmwarePath(version) :> Image)
  /\ req = [r \in Slots |-> Idle]
  /\ last = "none"
  /\ hist = [clean |-> FALSE, seq |-> <<>>, dangling |-> FALSE,
             restarted |-> FALSE]

InitDev ==
  /\ RegInit \/ \E v \in Versions \ {InitialVersion} : RegStored(v)
  /\ \E v \in Versions : Boot(v)

Next ==
  \/ Tick
  \/ WifiChange
  \/ SetupPin
  \/ SetupConnected
  \/ \E h \in Requests : HandleClient(h)
  \/ \E ok \in BOOLEAN : StatusReply(ok)
  \/ ManualCheck
  \/ \E d \in Commands : Receive(d, "padding")
  \/ EndPulse
  \/ TimerCheck
  \/ ReconnectPoll
  \/ Reconnect
  \/ Jitter
  \/ \E ok \in BOOLEAN : ConnTest(ok)
  \/ \E ok \in BOOLEAN : UpdateSend(ok)
  \/ \E delivery \in Deliveries : UpdateResult(delivery)
  \/ UpdateTimeout
  \/ \E v \in Versions : Restart(v)
  \/ FetchReadLatest(DevSlot)
  \/ FetchStat(DevSlot)
  \/ FetchMD5(DevSlot)
  \/ FetchServe(DevSlot)

Spec == InitDev /\ [][Next]_vars

(***************************************************************************)
(* The device in its first updateInterval of uptime, with no HTTP client:  *)
(* every kind of datagram arrives.                                         *)
(***************************************************************************)
NextUdp ==
  \/ WifiChange
  \/ SetupPin
  \/ SetupConnected
  \/ HandleClient("none")
  \/ \E d \in Datagrams, spill \in Spills : Receive(d, spill)
  \/ EndPulse
  \/ TimerCheck


(***************************************************************************)
(* Administrative clients, one request at a time: a request starts only    *)
(* when no other is being served.                                          *)
(***************************************************************************)
NextSeq ==
  \E r \in {SeqSlot} :
    \/ \E m \in Methods("POST"), form \in UploadForms :
         Quiet /\ UploadStart(r, m, form)
    \/ \E m \in Methods("GET"), v \in Versions \cup {""}, c \in ClientIds :
         Quiet /\ FetchStart(r, m, v, c) /\ UNCHANGED devVars
    \/ \E m \in Methods("GET") : Quiet /\ GetVersion(r, m)
    \/ \E m \in Methods("GET") : Quiet /\ ListStart(r, m)
    \/ \E m \in Methods("DELETE"), v \in Versions \cup {""} :
         Quiet /\ DeleteStart(r, m, v)
    \/ UploadSetLatest(r)
    \/ \E ok \in BOOLEAN : UploadCreate(r, ok)
    \/ \E ok \in BOOLEAN : UploadCopy(r, ok)
    \/ UploadFinish(r)
    \/ FetchReadLatest(r)
    \/ FetchStat(r)
    \/ FetchMD5(r)
    \/ FetchServe(r)
    \/ GetVersionRead(r)
    \/ ListReadLatest(r)
    \/ ListBuild(r)
    \/ DeleteStat(r)
    \/ \E ok \in BOOLEAN : DeleteRemove(r, ok)

Init == RegInit /\ Boot(InitialVersion)

SpecSeq == Init /\ [][NextSeq]_vars

SpecUdp == Init /\ [][NextUdp]_vars

(***************************************************************************)
(* Two connections served at once (net/http runs each request in its own   *)
(* goroutine): an administrator who uploads and deletes a new version, and *)
(* a second client who fetches, asks for the version and lists.            *)
(***************************************************************************)
NewVersions == Versions \ {InitialVersion}

Readers == {[hdr |-> "", ua |-> "curl/1.2.0"],
            [hdr |-> InitialVersion, ua |-> "ESP8266-http-Update"]}

NextConc ==
  \/ \E v \in NewVersions, b \in Payloads :
       UploadStart(SeqSlot, "POST",
                   [parseOk |-> TRUE, hasFile |-> TRUE, oversize |-> FALSE,
                    version |-> v, payload |-> b])
  \/ \E v \in NewVersions : DeleteStart(SeqSlot, "DELETE", v)
  \/ UploadSetLatest(SeqSlot)
  \/ \E ok \in BOOLEAN : UploadCreate(SeqSlot, ok)
  \/ \E ok \in BOOLEAN : UploadCopy(SeqSlot, ok)
  \/ UploadFinish(SeqSlot)
  \/ DeleteStat(SeqSlot)
  \/ \E ok \in BOOLEAN : DeleteRemove(SeqSlot, ok)
  \/ \E c \in Readers :
       FetchStart(DevSlot, "GET", "", c) /\ UNCHANGED devVars
  \/ GetVersion(DevSlot, "GET")
  \/ ListStart(DevSlot, "GET")
  \/ FetchReadLatest(DevSlot)
  \/ FetchStat(DevSlot)
  \/ FetchMD5(DevSlot)
  \/ FetchServe(DevSlot)
  \/ GetVersionRead(DevSlot)
  \/ ListReadLatest(DevSlot)
  \/ ListBuild(DevSlot)

SpecConc == Init /\ [][NextConc]_vars

(***************************************************************************)
(* Claims about the registry, one request at a time (SpecSeq).             *)
(***************************************************************************)
DoneAlone(r, op) == IsDone(r, op) /\ req[r].pre.alone

\* C2: a fetch without version filter that directly follows a successful
\* upload(V, B), from a client whose reported version is not V, returns
\* exactly B, and its x-MD5 header is the checksum of B.
C2_FetchAfterUpload ==
  \A r \in Slots :
    (/\ DoneAlone(r, "fetch")
     /\ req[r].pre.after.op = "upload"
     /\ req[r].arg.requestedVersion = ""
     /\ req[r].arg.clientVersion # req[r].pre.after.arg.version)
    => /\ req[r].resp.status = 200
       /\ req[r].resp.body = req[r].pre.after.arg.payload
       /\ req[r].resp.md5 = HexDigest(Digest(req[r].pre.after.arg.payload))

C2_Witness ==
  \E r \in Slots :
    /\ DoneAlone(r, "fetch")
    /\ req[r].pre.after.op = "upload"
    /\ req[r].arg.requestedVersion = ""
    /\ req[r].arg.clientVersion # req[r].pre.after.arg.version
    /\ req[r].resp.status = 200
    /\ Len(req[r].resp.body) = MaxLen
    /\ req[r].pre.after.arg.version # InitialVersion

\* The unfiltered fetch of slot r came from a client that reports the
\* current version, which is not empty.
ReportsCurrent(r) ==
  /\ DoneAlone(r, "fetch")
  /\ req[r].arg.requestedVersion = ""
  /\ req[r].pre.latest # ""
  /\ req[r].arg.clientVersion = req[r].pre.latest

\* C3 as stated: whenever currentVersion is not empty, an unfiltered fetch
\* whose client reports currentVersion yields 304 with no body.
C3_Original ==
  \A r \in Slots :
    ReportsCurrent(r) => req[r].resp.status = 304 /\ req[r].resp.body = <<>>

\* C3, amended: whenever the image of currentVersion is stored, an
\* unfiltered fetch whose client reports currentVersion yields 304 with no
\* body; when it is not stored the answer is 404.
C3_NotModifiedWhenStored ==
  \A r \in Slots :
    ReportsCurrent(r) =>
      IF FirmwarePath(req[r].pre.latest) \in DOMAIN req[r].pre.files
        THEN req[r].resp.status = 304 /\ req[r].resp.body = <<>>
        ELSE req[r].resp.status = 404

C3_Witness ==
  \E r \in Slots :
    /\ ReportsCurrent(r)
    /\ FirmwarePath(req[r].pre.latest) \in DOMAIN req[r].pre.files
    /\ req[r].resp.status = 304
    /\ req[r].pre.latest # InitialVersion

\* C5: after nothing but N successful uploads of pairwise distinct
\* versions, a listing has exactly N entries, exactly one of them is
\* marked current and it is the version uploaded last; a listing that
\* directly follows a listing returns the same result, and a listing leaves
\* the registry as it found it.
C5_ListAfterUploads ==
  \A r \in Slots :
    DoneAlone(r, "list") =>
      /\ req[r].pre.clean =>
           /\ req[r].resp.status = 200
           /\ Cardinality(req[r].resp.entries) = Len(req[r].pre.seq)
           /\ Len(req[r].pre.seq) > 0 =>
                {e.version : e \in {x \in req[r].resp.entries : x.isLatest}}
                  = {req[r].pre.seq[Len(req[r].pre.seq)]}
      /\ req[r].pre.after.op = "list" =>
           req[r].resp = req[r].pre.after.resp
      /\ (Quiet /\ last = r) =>
           latest = req[r].pre.latest /\ files = req[r].pre.files

C5_Witness ==
  \E r \in Slots :
    /\ DoneAlone(r, "list")
    /\ req[r].pre.clean
    /\ Len(req[r].pre.seq) = Cardinality(Versions)
    /\ req[r].pre.after.op = "list"
    /\ Cardinality(req[r].resp.entries) = Cardinality(Versions)

\* C6: after a successful delete of the current version and until the next
\* upload, a listing marks no entry current and every unfiltered fetch is
\* answered NotFound, whatever version the client reports.
C6_DanglingCurrent ==
  \A r \in Slots :
    /\ (DoneAlone(r, "list") /\ req[r].pre.dangling) =>
         /\ req[r].resp.status = 200
         /\ \A e \in req[r].resp.entries : ~e.isLatest
    /\ (DoneAlone(r, "fetch") /\ req[r].pre.dangling
        /\ req[r].arg.requestedVersion = "") =>
         req[r].resp.status = 404

C6_Witness ==
  \E r \in Slots :
    /\ DoneAlone(r, "fetch")
    /\ req[r].pre.dangling
    /\ req[r].arg.requestedVersion = ""
    /\ req[r].arg.clientVersion = req[r].pre.latest
    /\ req[r].pre.files # EmptyDir
    /\ req[r].resp.status = 404

(***************************************************************************)
(* Claims about the device with the registry (Spec).                       *)
(***************************************************************************)
\* checkForUpdate() is executing.
Checking == step \in {"conn", "update", "await"}

\* C1: the pin is HIGH, the actuator de-energized and lockState Locked,
\* when setup() has returned and loop() is at its top, while
\* checkForUpdate() executes, and when the restart is triggered.
C1_LockedAtStartCheckRestart ==
  (step = "loop" \/ Checking \/ step = "restart") =>
    led = "HIGH" /\ lockState = "Locked"

C1_Witness ==
  /\ step = "restart"
  /\ obs.energized > 0
  /\ lockState = "Locked"

\* C4: a 200 answer to an unfiltered fetch goes only to a client whose
\* reported version differs from the versions.latest read for the request;
\* a device that runs the registry's current version ends its attempt
\* without an installation and without a restart.
C4_PayloadOnlyWhenVersionsDiffer ==
  /\ \A r \in Slots :
       (IsDone(r, "fetch") /\ req[r].arg.requestedVersion = ""
        /\ req[r].resp.status = 200) =>
         req[r].arg.clientVersion # req[r].loc.targetVersion
  /\ (attempt.kind # "none" /\ attempt.version = latest) =>
       attempt.outcome # "Installed" /\ step # "restart"

C4_Witness ==
  /\ attempt.outcome = "UpToDate"
  /\ attempt.version = latest
  /\ FileExists(FirmwarePath(latest))

\* C7: after an unlock datagram processed while the pin was HIGH, the pin
\* has gone LOW once more than before and packetCount is one more than
\* before; the pin is LOW during the delay and HIGH from then on.
C7_UnlockPulse ==
  (obs.cmd.payload = UNLOCK /\ obs.cmd.ledBefore = "HIGH") =>
    /\ obs.energized = obs.cmd.energizedBefore + 1
    /\ packetCount = obs.cmd.countBefore + 1
    /\ led = IF step = "pulse" THEN "LOW" ELSE "HIGH"

C7_Witness ==
  /\ obs.cmd.payload = UNLOCK
  /\ obs.cmd.ledBefore = "HIGH"
  /\ obs.cmd.countBefore > 0
  /\ step = "timer"
  /\ lockState = "Locked"

\* C10: a request is sent to the registry only by an attempt whose
\* connectivity test has passed; an attempt whose test failed, or that
\* found WiFi down, is Failed, has sent nothing, goes on to neither
\* update() nor a restart, and leaves runningVersion as it was.
C10_NoFetchWithoutConnectivity ==
  /\ (attempt.fetch \/ req[DevSlot].op # "idle") => attempt.conn = "passed"
  /\ step \in {"update", "await", "restart"} => attempt.conn = "passed"
  /\ attempt.conn \in {"failed", "linkDown"} =>
       /\ attempt.outcome = "Failed"
       /\ ~attempt.fetch
       /\ runningVersion = attempt.version

C10_Witness ==
  /\ attempt.kind = "manual"
  /\ attempt.conn = "failed"
  /\ attempt.outcome = "Failed"
  /\ wifi = "connected"
  /\ step = "udp"

(***************************************************************************)
(* Claims about the datagrams (SpecUdp).                                   *)
(***************************************************************************)
\* A datagram has been processed since the start.
Processed == obs.received > 0

\* The token of a datagram: its first 255 bytes at most, up to the first
\* zero byte.
Token(d) ==
  LET n == Min(Len(d), BufSize)
      zeros == {i \in 1..n : d[i] = 0}
  IN  IF zeros = {} THEN SubSeq(d, 1, n)
      ELSE SubSeq(d, 1, (CHOOSE i \in zeros : \A j \in zeros : i <= j) - 1)

\* C8 as stated: a datagram whose payload is not exactly unlock does not
\* energize the actuator and leaves lockState as it was.
C8_Original ==
  (Processed /\ obs.cmd.payload # UNLOCK) =>
    /\ obs.energized = obs.cmd.energizedBefore
    /\ led = obs.cmd.ledBefore

\* C8, amended: a datagram energizes the actuator exactly when its token
\* is unlock or f_pressed; every other datagram leaves the pin as it was.
C8_OnlyTokensEnergize ==
  Processed =>
    IF Token(obs.cmd.payload) \in {UNLOCK, F_PRESSED}
      THEN obs.energized = obs.cmd.energizedBefore + 1
      ELSE obs.energized = obs.cmd.energizedBefore /\ led = obs.cmd.ledBefore

C8_Witness ==
  /\ Processed
  /\ obs.cmd.payload = UNLOCK \o <<10>>
  /\ obs.cmd.energizedBefore = 1
  /\ obs.energized = 1
  /\ led = "HIGH"

\* C9 as stated: the counter equals the number of unlock datagrams
\* processed since the start.
C9_CountsUnlocks == packetCount = obs.unlocks

(***************************************************************************)
(* Claims about the outcome of an update attempt (Spec).                   *)
(***************************************************************************)
\* C11: an attempt whose payload arrived with a checksum other than the
\* declared one is Failed and no restart is triggered; a restart is
\* triggered only by an attempt that installed, never by one that is
\* Failed or UpToDate.
C11_RestartOnlyAfterInstall ==
  /\ attempt.integrity = "mismatch" =>
       attempt.outcome = "Failed" /\ step # "restart"
  /\ step = "restart" => attempt.outcome = "Installed"
  /\ attempt.outcome \in {"Failed", "UpToDate"} => step # "restart"

C11_Witness ==
  /\ attempt.integrity = "mismatch"
  /\ attempt.outcome = "Failed"
  /\ attempt.kind = "timer"
  /\ step = "loop"

\* C12: an attempt that installed has triggered the restart, and from then
\* on the device does nothing but restart: until it does, no datagram is
\* processed, no attempt starts and lastUpdateCheck is not written.
C12_InstallThenRestart ==
  /\ [](attempt.outcome = "Installed" => step = "restart")
  /\ [][attempt.outcome = "Installed" =>
          \/ step' = "setup" /\ attempt' = NoAttempt
          \/ UNCHANGED <<step, ret, led, packetCount, packetBuffer,
                         lastUpdateCheck, now, runningVersion, attempt,
                         statusReply, obs>>]_vars

C12_Witness ==
  /\ attempt.outcome = "Installed"
  /\ attempt.kind = "timer"
  /\ step = "restart"
  /\ obs.received > 0

(***************************************************************************)
(* Claims about uploads (SpecConc, SpecSeq).                               *)
(***************************************************************************)
\* The upload of slot u is past its write of versions.latest.
PastSetLatest(u) ==
  req[u].op = "upload" /\ req[u].pc \in {"create", "copy"}

\* The payload of the upload of slot u is the content of its file.
Stored(u) ==
  /\ FileExists(FirmwarePath(req[u].arg.version))
  /\ files[FirmwarePath(req[u].arg.version)] = req[u].arg.payload

\* Slot r serves a request that reads the registry.
Reading(r) == InFlight(r) /\ req[r].op \in {"fetch", "list", "version"}

\* C13 as stated: while a fetch, list or version request is being served,
\* versions.latest is the version of an upload in progress only if that
\* upload's payload is already stored.
C13_StoredBeforeCurrent ==
  \A u \in Slots, r \in Slots :
    (PastSetLatest(u) /\ latest = req[u].arg.version /\ Reading(r)) =>
      Stored(u)

\* The request of slot r arrived while nothing else was served, has been
\* answered, and nothing has been served since.
JustServed(r, op) == DoneAlone(r, op) /\ Quiet /\ last = r

\* C14 as stated: after an upload answered with an error, versions.latest
\* is what it was before the request.
C14_ErrorKeepsCurrent ==
  \A r \in Slots :
    (JustServed(r, "upload") /\ req[r].resp.status \in {400, 500}) =>
      latest = req[r].pre.latest

\* C15: a POST to /upload with an empty version, or without a firmware
\* part, is answered 400 and leaves versions.latest and the stored files
\* as they were.
C15_RejectedUploadChangesNothing ==
  \A r \in Slots :
    (JustServed(r, "upload") /\ req[r].arg.method = "POST"
     /\ (req[r].arg.version = "" \/ ~req[r].arg.hasFile)) =>
      /\ req[r].resp.status = 400
      /\ latest = req[r].pre.latest
      /\ files = req[r].pre.files

C15_Witness ==
  \E r \in Slots :
    /\ JustServed(r, "upload")
    /\ req[r].arg.method = "POST"
    /\ req[r].arg.version = ""
    /\ req[r].arg.hasFile
    /\ req[r].arg.payload # <<>>
    /\ req[r].resp.status = 400
    /\ req[r].pre.files # EmptyDir

\* C16 as stated: an upload whose firmware part is larger than 10 MiB is
\* answered with an error, stores nothing and leaves versions.latest.
C16_OversizeRejected ==
  \A r \in Slots :
    (JustServed(r, "upload") /\ req[r].arg.oversize) =>
      /\ req[r].resp.status # 200
      /\ latest = req[r].pre.latest
      /\ files = req[r].pre.files

\* C17: a GET of /firmware?version=R is answered with the bytes stored for R
\* and 200, or with 404 when R is not stored, whatever versions.latest and
\* the client's reported version are; it is never answered 304.
C17_RequestedVersionServed ==
  \A r \in Slots :
    (JustServed(r, "fetch") /\ req[r].arg.requestedVersion # "") =>
      LET name == FirmwarePath(req[r].arg.requestedVersion)
      IN  IF name \in DOMAIN req[r].pre.files
            THEN /\ req[r].resp.status = 200
                 /\ req[r].resp.body = req[r].pre.files[name]
            ELSE req[r].resp.status = 404

C17_Witness ==
  \E r \in Slots :
    /\ JustServed(r, "fetch")
    /\ req[r].arg.requestedVersion # ""
    /\ req[r].arg.clientVersion = req[r].arg.requestedVersion
    /\ req[r].arg.requestedVersion = req[r].pre.latest
    /\ req[r].resp.status = 200
    /\ req[r].resp.body # <<>>

\* C18: a request to /delete leaves versions.latest as it was, also when
\* the removed version is the current one, and leaves every stored file
\* of another version as it was; for a version that is not stored the
\* answer is 404 and the registry is as it was.
C18_DeleteFrame ==
  \A r \in Slots :
    JustServed(r, "delete") =>
      LET name == FirmwarePath(req[r].arg.version)
      IN  /\ latest = req[r].pre.latest
          /\ DOMAIN files \subseteq DOMAIN req[r].pre.files
          /\ \A n \in DOMAIN req[r].pre.files \ {name} :
               n \in DOMAIN files /\ files[n] = req[r].pre.files[n]
          /\ (req[r].arg.version # "" /\ req[r].resp.status # 405
              /\ name \notin DOMAIN req[r].pre.files) =>
               req[r].resp.status = 404 /\ files = req[r].pre.files

C18_Witness ==
  \E r \in Slots :
    /\ JustServed(r, "delete")
    /\ req[r].arg.version = req[r].pre.latest
    /\ req[r].resp.status = 200
    /\ FirmwarePath(req[r].arg.version) \notin DOMAIN files
    /\ DOMAIN files # {}

\* C19 as stated: an upload, also one that names a version already stored,
\* leaves every file that was stored before it with the bytes it had.
C19_StoredImageImmutable ==
  \A r \in Slots :
    JustServed(r, "upload") =>
      \A n \in DOMAIN req[r].pre.files :
        n \in DOMAIN files /\ files[n] = req[r].pre.files[n]

\* C20 as stated: a timer-driven attempt that follows a failed one starts,
\* with its reconnect step, at least updateInterval after the failed one
\* started.
C20_FailureNotRetriedInCycle ==
  (attempt.kind = "timer" /\ attempt.retry) =>
    ~Less(Minus(attempt.start, attempt.failedStart), U32(updateInterval))

\* C21 as stated: the status document sent for GET / carries the version
\* the device hands to the registry, the packet counter and the uptime as
\* they are when it is sent.
C21_StatusReportsState ==
  (statusReply.sent /\ step = "udp") =>
    /\ statusReply.firmware_version = runningVersion
    /\ statusReply.packets_received = packetCount
    /\ statusReply.uptime = clock

(***************************************************************************)
(* The device with a processor that keeps executing: setup() and loop()    *)
(* take their next step whenever they have one.  Time, the WiFi link and   *)
(* the registry owe nothing.                                               *)
(***************************************************************************)
\* The datagrams of a client that only unlocks.
Unlocks == {UNLOCK, <<>>}

DeviceStep ==
  \/ SetupPin
  \/ SetupConnected
  \/ \E h \in Requests : HandleClient(h)
  \/ \E ok \in BOOLEAN : StatusReply(ok)
  \/ ManualCheck
  \/ \E d \in Unlocks : Receive(d, "padding")
  \/ EndPulse
  \/ TimerCheck
  \/ ReconnectPoll
  \/ Reconnect
  \/ Jitter
  \/ \E ok \in BOOLEAN : ConnTest(ok)
  \/ \E ok \in BOOLEAN : UpdateSend(ok)
  \/ \E delivery \in Deliveries : UpdateResult(delivery)
  \/ UpdateTimeout
  \/ \E v \in Versions : Restart(v)

\* The registry holds a newer image than the one the device starts with.
InitFair ==
  /\ \E v \in Versions \ {InitialVersion} : RegStored(v)
  /\ Boot(InitialVersion)

NextFair ==
  \/ Tick
  \/ WifiChange
  \/ SetupPin
  \/ SetupConnected
  \/ \E h \in Requests : HandleClient(h)
  \/ \E ok \in BOOLEAN : StatusReply(ok)
  \/ ManualCheck
  \/ \E d \in Unlocks : Receive(d, "padding")
  \/ EndPulse
  \/ TimerCheck
  \/ ReconnectPoll
  \/ Reconnect
  \/ Jitter
  \/ \E ok \in BOOLEAN : ConnTest(ok)
  \/ \E ok \in BOOLEAN : UpdateSend(ok)
  \/ \E delivery \in Deliveries : UpdateResult(delivery)
  \/ UpdateTimeout
  \/ \E v \in Versions : Restart(v)
  \/ FetchReadLatest(DevSlot)
  \/ FetchStat(DevSlot)
  \/ FetchMD5(DevSlot)
  \/ FetchServe(DevSlot)

FairSpec == InitFair /\ [][NextFair]_vars /\ WF_vars(DeviceStep)

\* C22: the pin is LOW only during the delay of the pulse; what follows
\* that delay is the write of HIGH and nothing else of the device (no
\* handler, no datagram, no update check, no restart runs in between); and
\* a pin that is LOW becomes HIGH again.
C22_PulseBounded ==
  /\ [](led = "LOW" => step = "pulse")
  /\ [][step = "pulse" =>
          \/ /\ led' = "HIGH"
             /\ step' = "timer"
             /\ UNCHANGED <<regVars, ret, packetCount, packetBuffer,
                            lastUpdateCheck, now, runningVersion, attempt,
                            statusReply, obs>>
          \/ UNCHANGED <<regVars, step, ret, led, packetCount, packetBuffer,
                         lastUpdateCheck, now, runningVersion, attempt,
                         statusReply, obs>>]_vars
  /\ (led = "LOW" ~> led = "HIGH")

C22_Witness ==
  /\ led = "LOW"
  /\ step = "pulse"
  /\ obs.cmd.payload = UNLOCK
  /\ obs.received = MaxPackets

\* What echo "unlock" | nc -u puts in its datagram: the token and the
\* newline echo adds.
EchoUnlock == UNLOCK \o <<10>>

\* C23 as stated: the datagram of the documented echo command energizes the
\* actuator for one pulse, as the bare token does.
C23_EchoUnlockPulses ==
  (Processed /\ obs.cmd.payload = EchoUnlock) =>
    obs.energized = obs.cmd.energizedBefore + 1

(***************************************************************************)
(* The device with datagrams that arrive at any moment and wait in the     *)
(* socket until loop() calls udp.parsePacket().                            *)
(***************************************************************************)
NextArrive ==
  \/ \E d \in Commands : Arrive(d)
  \/ Receive(obs.inbox, "padding")
  \/ Tick
  \/ WifiChange
  \/ SetupPin
  \/ SetupConnected
  \/ \E h \in Requests : HandleClient(h)
  \/ \E ok \in BOOLEAN : StatusReply(ok)
  \/ ManualCheck
  \/ EndPulse
  \/ TimerCheck
  \/ ReconnectPoll
  \/ Reconnect
  \/ Jitter
  \/ \E ok \in BOOLEAN : ConnTest(ok)
  \/ \E ok \in BOOLEAN : UpdateSend(ok)
  \/ \E delivery \in Deliveries : UpdateResult(delivery)
  \/ UpdateTimeout
  \/ \E v \in Versions : Restart(v)
  \/ FetchReadLatest(DevSlot)
  \/ FetchStat(DevSlot)
  \/ FetchMD5(DevSlot)
  \/ FetchServe(DevSlot)

SpecArrive == InitDev /\ [][NextArrive]_vars

\* An update attempt is in progress: from reconnectWiFi() or the handler's
\* delay to the return of checkForUpdate().
Attempting ==
  step \in {"reconnect", "jitter", "manualDelay", "conn", "update", "await"}

\* C24 as stated: a datagram that came in during a pulse, or during an
\* update attempt, and still waits in the socket finds that pulse, or that
\* attempt, still in progress: it is read before the pulse or attempt ends.
C24_ReceptionNotStarved ==
  obs.inbox # <<>> =>
    /\ obs.during = "pulse" => step = "pulse"
    /\ obs.during \in {"reconnect", "jitter", "manualDelay", "conn",
                       "update", "await"} => Attempting

(***************************************************************************)
(* Two connections that each upload at any time, uploads of both versions  *)
(* and of no version, side by side; between its uploads the one asks for   *)
(* GET /version and the other fetches and lists.                           *)
(***************************************************************************)
BothSlots == {SeqSlot, DevSlot}

BothForms ==
  [parseOk : {TRUE}, hasFile : {TRUE}, oversize : {FALSE},
   version : Versions \cup {""}, payload : {Image}]

NextBoth ==
  \/ \E r \in BothSlots :
       \/ \E form \in BothForms : UploadStart(r, "POST", form)
       \/ UploadSetLatest(r)
       \/ \E ok \in BOOLEAN : UploadCreate(r, ok)
       \/ \E ok \in BOOLEAN : UploadCopy(r, ok)
       \/ UploadFinish(r)
  \/ GetVersion(SeqSlot, "GET")
  \/ GetVersionRead(SeqSlot)
  \/ FetchStart(DevSlot, "GET", "", [hdr |-> "", ua |-> "curl/1.2.0"])
       /\ UNCHANGED devVars
  \/ FetchReadLatest(DevSlot)
  \/ FetchStat(DevSlot)
  \/ FetchMD5(DevSlot)
  \/ FetchServe(DevSlot)
  \/ ListStart(DevSlot, "GET")
  \/ ListReadLatest(DevSlot)
  \/ ListBuild(DevSlot)

SpecBoth == Init /\ [][NextBoth]_vars

\* The values of versions.latest that the requests being served, or just
\* served, have read.
ObservedLatest ==
  {req[r].loc.targetVersion :
     r \in {q \in Slots : req[q].op = "fetch" /\ req[q].pc \in {"stat", "md5", "serve"}}}
  \cup {req[r].loc.currentLatest :
          r \in {q \in Slots : req[q].op = "list" /\ req[q].pc = "build"}}
  \cup {req[r].resp.current :
          r \in {q \in Slots : req[q].op \in {"version", "list"}
                               /\ req[q].pc = "done"
                               /\ req[q].resp.status = 200}}

\* C25: what a reader observes as versions.latest, and versions.latest
\* itself, is the initial version or the whole version string of an upload
\* that passed the checks; versions.latest changes only in the write-lock
\* section of such an upload, and each such section leaves it equal to its
\* upload's version whatever it was before, so that it is the version of
\* the section that ran last.
C25_LatestIsLastCommit ==
  /\ [](ObservedLatest \cup {latest} \subseteq Versions)
  /\ [][\A r \in Slots :
          (At(r, "upload", "setLatest") /\ req'[r].pc # "setLatest") =>
            latest' = req[r].arg.version]_vars
  /\ [][latest' # latest =>
          \E r \in Slots :
            /\ At(r, "upload", "setLatest")
            /\ req'[r].pc = "create"
            /\ UploadChecks(req[r].arg.method,
                            [parseOk |-> TRUE, hasFile |-> req[r].arg.hasFile,
                             version |-> req[r].arg.version]) = 200
            /\ latest' = req[r].arg.version]_vars

C25_Witness ==
  /\ Quiet
  /\ IsDone(SeqSlot, "upload") /\ req[SeqSlot].resp.status = 200
  /\ IsDone(DevSlot, "upload") /\ req[DevSlot].resp.status = 200
  /\ req[SeqSlot].arg.version = "1.2.0"
  /\ req[DevSlot].arg.version = "1.1.0"
  /\ ~req[SeqSlot].pre.alone /\ ~req[DevSlot].pre.alone
  /\ last = SeqSlot
  /\ latest = "1.1.0"

\* C26: while an update attempt runs the pin is HIGH and the pin, the
\* packet counter, the buffer and the running version stay as they are;
\* the step that ends an attempt in Failed or UpToDate returns to loop()
\* (to its top, or to the UDP socket after the POST /update handler), not
\* to a restart; and loop() then reaches the UDP socket again, unless a
\* POST /update is waiting and starts the next attempt first.
C26_FailedOrUpToDateReturns ==
  /\ [][Attempting =>
          /\ led = "HIGH" /\ led' = "HIGH"
          /\ UNCHANGED <<packetCount, packetBuffer, runningVersion, obs>>
          /\ (attempt'.outcome \in {"Failed", "UpToDate"}
              /\ attempt.outcome = "running") =>
               step' \in {"loop", "udp"}]_vars
  /\ ((attempt.outcome \in {"Failed", "UpToDate"} /\ attempt.kind # "none")
        ~> (step = "udp" \/ attempt.outcome = "running"))

C26_Witness ==
  /\ attempt.kind = "manual"
  /\ attempt.outcome = "UpToDate"
  /\ step = "pulse"
  /\ obs.cmd.payload = UNLOCK
  /\ obs.cmd.countBefore > 0

\* An iteration of loop() is under way.
InIteration == step \notin {"setup", "connect", "loop", "restart"}

Terminal == {"Installed", "UpToDate", "Failed"}

\* C27: an update attempt that has started gets a terminal outcome, and
\* that outcome stays the attempt's; reconnectWiFi() polls at most 20
\* times; and an iteration of loop() that is under way comes back to the
\* top of loop(), or ends in the restart.
C27_AttemptsAndIterationsEnd ==
  /\ (attempt.outcome = "running" ~> attempt.outcome \in Terminal)
  /\ [][attempt.outcome \in Terminal =>
          \/ attempt'.outcome = attempt.outcome
          \/ attempt'.outcome \in {"none", "running"}
             /\ (step = "loop" \/ step = "timer" \/ step = "restart")]_vars
  /\ [](attempt.polls <= MaxPolls)
  /\ (InIteration ~> (step = "loop" \/ step = "restart"))

C27_Witness ==
  /\ attempt.kind = "timer"
  /\ attempt.conn = "linkDown"
  /\ attempt.outcome = "Failed"
  /\ step = "loop"
  /\ wifi = "disconnected"
  /\ obs.received > 0

\* C28: the attempt started by POST /update has its 200 response sent
\* before checkForUpdate() is entered, and nothing the attempt does changes
\* that response; checkForUpdate() is entered once, from the handler's
\* delay, and from there on the attempt takes the steps of a timer-driven
\* one: a request to the registry and a restart only after a passed
\* connectivity test, a terminal outcome, a restart only after Installed.
C28_ManualTrigger ==
  /\ [](attempt.kind = "manual" =>
          /\ attempt.reply = 200
          /\ (step \in {"update", "await", "restart"} \/ attempt.fetch) =>
               attempt.conn = "passed"
          /\ attempt.conn = "failed" =>
               attempt.outcome = "Failed" /\ ~attempt.fetch
          /\ step = "restart" <=> attempt.outcome = "Installed"
          /\ attempt.outcome \in Terminal \cup {"running"})
  /\ [][(attempt.kind = "manual" /\ attempt'.kind = "manual") =>
          attempt'.reply = attempt.reply]_vars
  /\ [][(attempt.kind = "manual" /\ step' = "conn" /\ step # "conn") =>
          step = "manualDelay" /\ attempt.outcome = "running"]_vars

C28_Witness ==
  /\ attempt.kind = "manual"
  /\ attempt.reply = 200
  /\ attempt.outcome = "Installed"
  /\ step = "restart"

(***************************************************************************)
(* The device after 49.7 days of uptime: millis() is about to pass 2^32    *)
(* and the last update check was stamped a moment ago.                     *)
(***************************************************************************)
WrapStart == Minus(U32(0), U32(2 * (updateInterval \div 3)))

InitWrap ==
  /\ \E v \in Versions \ {InitialVersion} : RegStored(v)
  /\ step = "loop"
  /\ ret = "none"
  /\ led = "HIGH"
  /\ packetCount = 0
  /\ packetBuffer = [i \in 1..BufSize |-> 0]
  /\ lastUpdateCheck = WrapStart
  /\ now = WrapStart
  /\ clock = WrapStart
  /\ wifi = "connected"
  /\ runningVersion = InitialVersion
  /\ attempt = [NoAttempt EXCEPT !.checked = TRUE, !.checkedAt = WrapStart]
  /\ statusReply = NoStatus
  /\ obs = NoObs

\* millis() advances by a third of the interval, through 2^32.
TickWrap ==
  /\ step \in {"loop", "timer"}
  /\ Less(Minus(clock, WrapStart), U32((MaxTicks + 1) * updateInterval))
  /\ clock' = Plus(clock, updateInterval \div 3)
  /\ UNCHANGED <<regVars, step, ret, led, packetCount, packetBuffer,
                 lastUpdateCheck, now, wifi, runningVersion, attempt,
                 statusReply, obs>>

NextWrap ==
  \/ TickWrap
  \/ WifiChange
  \/ SetupPin
  \/ SetupConnected
  \/ \E h \in Requests : HandleClient(h)
  \/ \E ok \in BOOLEAN : StatusReply(ok)
  \/ ManualCheck
  \/ \E d \in Unlocks : Receive(d, "padding")
  \/ EndPulse
  \/ TimerCheck
  \/ ReconnectPoll
  \/ Reconnect
  \/ Jitter
  \/ \E ok \in BOOLEAN : ConnTest(ok)
  \/ \E ok \in BOOLEAN : UpdateSend(ok)
  \/ \E delivery \in Deliveries : UpdateResult(delivery)
  \/ UpdateTimeout
  \/ \E v \in Versions : Restart(v)
  \/ FetchReadLatest(DevSlot)
  \/ FetchStat(DevSlot)
  \/ FetchMD5(DevSlot)
  \/ FetchServe(DevSlot)

SpecWrap == InitWrap /\ [][NextWrap]_vars

\* A timer-driven attempt has gone on to checkForUpdate().
TimerChecking ==
  attempt.kind = "timer" /\ step # "reconnect" /\ attempt.conn # "linkDown"

\* C29 as stated: a timer-driven check starts at least updateInterval
\* after the start of the timer-driven check before it, on the 32-bit
\* clock, and the first one since the start of the device not before
\* updateInterval.
C29_IntervalKept ==
  TimerChecking =>
    IF attempt.checked
      THEN ~Less(Minus(attempt.start, attempt.checkedAt), U32(updateInterval))
      ELSE ~Less(attempt.start, U32(updateInterval))

\* C30: versions.latest is never the empty string, and a fetch of a client
\* that reports no version (no x-esp8266-version header, nothing after a
\* slash in its User-Agent) is never answered 304.
C30_CurrentNeverEmpty ==
  /\ latest # ""
  /\ \A r \in Slots :
       (IsDone(r, "fetch") /\ req[r].arg.clientVersion = "") =>
         req[r].resp.status # 304

C30_Witness ==
  \E r \in Slots :
    /\ JustServed(r, "fetch")
    /\ req[r].arg.clientVersion = ""
    /\ req[r].arg.requestedVersion = ""
    /\ req[r].resp.status = 200
    /\ req[r].pre.latest # InitialVersion

(***************************************************************************)
(* Claims about requests served side by side (SpecConc, SpecPair).         *)
(***************************************************************************)
\* C31 as stated: whatever uploads or deletes run beside it, a fetch
\* answered 200 carries an x-MD5 header that is the checksum of the body
\* sent in that response.
C31_HeaderMatchesBody ==
  \A r \in Slots :
    (IsDone(r, "fetch") /\ req[r].resp.status = 200) =>
      req[r].resp.md5 = HexDigest(Digest(req[r].resp.body))

(***************************************************************************)
(* Two administrators who each upload the same new version once, with      *)
(* images of one or two blocks of io.Copy, at any time.                    *)
(***************************************************************************)
PairPayloads == {<<1, 1>>, <<2, 2>>, <<2>>}

NextPair ==
  \E r \in BothSlots :
    \/ \E v \in NewVersions, b \in PairPayloads :
         /\ req[r].op = "idle"
         /\ UploadStart(r, "POST",
                        [parseOk |-> TRUE, hasFile |-> TRUE,
                         oversize |-> FALSE, version |-> v, payload |-> b])
    \/ UploadSetLatest(r)
    \/ \E ok \in BOOLEAN : UploadCreate(r, ok)
    \/ \E ok \in BOOLEAN : UploadCopy(r, ok)
    \/ UploadFinish(r)

SpecPair == Init /\ [][NextPair]_vars

\* The uploads of slots a and b ran side by side, carried the same version
\* and different payloads, and both were answered 200; nothing is being
\* served.
BothUploaded(a, b) ==
  /\ a # b
  /\ Quiet
  /\ IsDone(a, "upload") /\ req[a].resp.status = 200
  /\ IsDone(b, "upload") /\ req[b].resp.status = 200
  /\ ~req[a].pre.alone /\ ~req[b].pre.alone
  /\ req[a].arg.version = req[b].arg.version
  /\ req[a].arg.payload # req[b].arg.payload

\* C32 as stated: after two such uploads the file of the version holds
\* the payload of the one or the payload of the other.
C32_StoredIsOnePayload ==
  \A a \in Slots, b \in Slots :
    BothUploaded(a, b) =>
      /\ FileExists(FirmwarePath(req[a].arg.version))
      /\ files[FirmwarePath(req[a].arg.version)]
           \in {req[a].arg.payload, req[b].arg.payload}

(***************************************************************************)
(* The registry process ends and is started again: the package variables   *)
(* are initialized anew and main() runs against the firmware directory as  *)
(* it was left; the requests being served end with the process.            *)
(***************************************************************************)
\* A start that finds versions.latest as the process before it left it.
mainKeepsLatest ==
  /\ UNCHANGED devVars
  /\ req' = [r \in Slots |-> Idle]
  /\ last' = "none"
  /\ hist' = [clean |-> FALSE, seq |-> <<>>, dangling |-> FALSE,
              restarted |-> TRUE]
  /\ UNCHANGED <<latest, files>>

\* Lines 17-24 and 119-142: versions.latest is the literal "1.1.0";
\* os.MkdirAll leaves an existing directory and its files alone, and
\* nothing reads the directory.
main ==
  /\ UNCHANGED devVars
  /\ latest' = InitialVersion
  /\ req' = [r \in Slots |-> Idle]
  /\ last' = "none"
  /\ hist' = [clean |-> FALSE, seq |-> <<>>, dangling |-> FALSE,
              restarted |-> TRUE]
  /\ UNCHANGED files

\* One administrative client, one request at a time, and process
\* restarts at any moment.
NextRestart ==
  \/ main
  \/ \E r \in {SeqSlot} :
       \/ \E form \in BothForms : Quiet /\ UploadStart(r, "POST", form)
       \/ \E v \in Versions \cup {""}, c \in Readers :
            Quiet /\ FetchStart(r, "GET", v, c) /\ UNCHANGED devVars
       \/ Quiet /\ GetVersion(r, "GET")
       \/ Quiet /\ ListStart(r, "GET")
       \/ \E v \in Versions : Quiet /\ DeleteStart(r, "DELETE", v)
       \/ UploadSetLatest(r)
       \/ \E ok \in BOOLEAN : UploadCreate(r, ok)
       \/ \E ok \in BOOLEAN : UploadCopy(r, ok)
       \/ UploadFinish(r)
       \/ FetchReadLatest(r)
       \/ FetchStat(r)
       \/ FetchMD5(r)
       \/ FetchServe(r)
       \/ GetVersionRead(r)
       \/ ListReadLatest(r)
       \/ ListBuild(r)
       \/ DeleteStat(r)
       \/ \E ok \in BOOLEAN : DeleteRemove(r, ok)

SpecRestart == Init /\ [][NextRestart]_vars

\* C33: from a restart of the registry process until the next upload,
\* versions.latest is "1.1.0" whatever is stored; a listing marks only
\* the image named "1.1.0" as current, so it marks one only if that image
\* is stored; GET /version answers "1.1.0"; and a fetch without version
\* filter serves a payload only if that image is stored, and then serves
\* it.
C33_RestartForgetsCurrent ==
  hist.restarted =>
    /\ latest = InitialVersion
    /\ \A r \in Slots :
         /\ (IsDone(r, "list") /\ req[r].resp.status = 200) =>
              /\ req[r].resp.current = InitialVersion
              /\ \A e \in req[r].resp.entries :
                   e.isLatest <=> e.version = InitialVersion
              /\ (\E e \in req[r].resp.entries : e.isLatest) <=>
                   FirmwarePath(InitialVersion) \in DOMAIN req[r].pre.files
         /\ (IsDone(r, "version") /\ req[r].resp.status = 200) =>
              req[r].resp.current = InitialVersion
         /\ (IsDone(r, "fetch") /\ req[r].arg.requestedVersion = ""
             /\ req[r].resp.status = 200) =>
              /\ FirmwarePath(InitialVersion) \in DOMAIN req[r].pre.files
              /\ req[r].resp.body =
                   req[r].pre.files[FirmwarePath(InitialVersion)]

\* After a restart the image of 1.2.0, uploaded before it, is stored and
\* that of 1.1.0 is not: a listing has shown the image and marked none
\* as current.
C33_Witness ==
  /\ hist.restarted
  /\ FileExists(FirmwarePath("1.2.0"))
  /\ ~FileExists(FirmwarePath(InitialVersion))
  /\ \E r \in Slots :
       /\ IsDone(r, "list") /\ req[r].resp.status = 200
       /\ req[r].resp.entries # {}
       /\ \A e \in req[r].resp.entries : ~e.isLatest

(***************************************************************************)
(* Claims about the receive buffer (SpecUdp).                              *)
(***************************************************************************)
\* What strcmp sees in the buffer: its bytes up to the first zero byte.
Compared(buffer) ==
  LET zeros == {i \in 1..BufSize : buffer[i] = 0}
  IN  IF zeros = {} THEN SubSeq(buffer, 1, BufSize)
      ELSE SubSeq(buffer, 1,
                  (CHOOSE i \in zeros : \A j \in zeros : i <= j) - 1)

\* C34 as stated: for every datagram processed, the index at which line
\* 249 wrote the zero byte is at most 254, the last index of packetBuffer,
\* and what was compared with the tokens is the token of that datagram.
C34_TerminatorInsideBuffer ==
  Processed =>
    /\ obs.cmd.zeroAt <= BufSize - 1
    /\ Compared(packetBuffer) = Token(obs.cmd.payload)

====
